---- MODULE Spec2Model ----
(***************************************************************************)
(* Focus Guardian: the perception-to-presentation pipeline.                *)
(*   WebcamMonitor (sampler)  -> analyzeFrame (classification client)      *)
(*   -> App.handleStatusChange (debounce + session statistics)             *)
(*   -> App.toggleMonitoring (session start / stop, focus score).          *)
(* The stable status also drives the audio effects (NoiseGenerator).       *)
(***************************************************************************)
EXTENDS Integers, Sequences, FiniteSets, TLC

\* ------------------------------------------------------------------ bounds
\* classifications issued in one run (ingested ones are counted in the stats)
MaxChecks == 2
\* sessions started in one run
MaxSessions == 2
\* classifications still pending in unmounted WebcamMonitor instances
MaxOrphans == 1
\* largest SessionStats.total drawn by the focus-score specification
MaxTotal == 40
\* milliseconds the clock advances in one run
MaxElapsed == 1500

\* --------------------------------------------------------------- constants
IDLE == "IDLE"
STUDYING == "STUDYING"
DISTRACTED == "DISTRACTED"
ABSENT == "ABSENT"

StudyStatus == {IDLE, STUDYING, DISTRACTED, ABSENT}

MAX_RETRIES == 3

\* Date.now() when the page is loaded, and the steps the clock is observed in
Epoch == 1000
Ticks == {500, 1000}

MinSensitivity == 1
MaxSensitivity == 5
DefaultSensitivity == 2

\* the slider positions the user moves the sensitivity to
SliderPositions == {MinSensitivity, DefaultSensitivity, MaxSensitivity}

\* reasons and confidences a provider reply carries (the text is free)
Reasons == {"keep going"}
Confidences == {1}

\* AnalysisResult
AnalysisResult(status, reason, confidence) ==
  [status |-> status, reason |-> reason, confidence |-> confidence]

\* the replies the response schema admits
ProviderReplies ==
  { AnalysisResult(s, r, c) : s \in {STUDYING, DISTRACTED, ABSENT},
                              r \in Reasons, c \in Confidences }

\* replies that are JSON of the AnalysisResult type but outside the enum of
\* the schema: JSON.parse(text) as AnalysisResult checks nothing at run time
OffSchemaReplies ==
  { AnalysisResult(IDLE, r, c) : r \in Reasons, c \in Confidences }

\* the replies that JSON.parse accepts
ParsableReplies == ProviderReplies \cup OffSchemaReplies

\* useState initial value of currentResult, also set again by a stop
InitialResult == AnalysisResult(IDLE, "", 0)

\* "no value yet" of a pending analyzeFrame promise
NoResult == AnalysisResult("PENDING", "", 0)

\* ------------------------------------------------------- provider errors
\* An error object: status and code (0 stands for an absent property) and
\* the message text.
ProviderError(status, code, message) ==
  [status |-> status, code |-> code, message |-> message]

NoError == ProviderError(0, 0, "<none>")

\* thrown by analyzeFrame itself on an empty reply
EmptyReplyError == ProviderError(0, 0, "No response from AI")

\* thrown by JSON.parse
ParseError == ProviderError(0, 0, "Unexpected token in JSON")

\* errors the provider call rejects with
ProviderErrors ==
  { ProviderError(503, 0, "Service Unavailable"),
    ProviderError(0, 503, ""),
    ProviderError(0, 0, "The model is overloaded. Please try again later."),
    ProviderError(0, 0, "UNAVAILABLE"),
    ProviderError(500, 0, "Internal error") }

\* String.prototype.includes on the messages above
Includes(message, needle) ==
  \/ needle = "overloaded"
     /\ message = "The model is overloaded. Please try again later."
  \/ needle = "UNAVAILABLE" /\ message = "UNAVAILABLE"

\* error?.status || error?.code
errorCode(error) == IF error.status # 0 THEN error.status ELSE error.code

isOverloaded(error) ==
  \/ errorCode(error) = 503
  \/ Includes(error.message, "overloaded")
  \/ Includes(error.message, "UNAVAILABLE")

RECURSIVE Pow2(_)
Pow2(n) == IF n <= 0 THEN 1 ELSE 2 * Pow2(n - 1)

BackoffDelayFromAttempt(attempt) == 1000 * Pow2(attempt)

\* const delay = 1000 * Math.pow(2, attempt - 1), attempt already incremented
BackoffDelay(attempt) == 1000 * Pow2(attempt - 1)

\* the result returned from the catch block
CatchFallback(overloaded) ==
  AnalysisResult(IDLE,
                 IF overloaded THEN "Server busy, retrying..." ELSE "Analysis failed",
                 0)

\* the result returned after the while loop
LoopExitFallback == AnalysisResult(IDLE, "Service unavailable", 0)

ShouldRetryAnyError(error, attempt) == attempt < MAX_RETRIES - 1

ShouldRetryWithoutBudget(error, attempt) == isOverloaded(error)

\* isOverloaded && attempt < MAX_RETRIES - 1
ShouldRetry(error, attempt) == isOverloaded(error) /\ attempt < MAX_RETRIES - 1

\* ------------------------------------------------------------------ state
VARIABLES
  isMonitoring,             \* App state, passed to WebcamMonitor as a prop
  isMonitoringRef,          \* App ref read by handleStatusChange
  currentResult,            \* App state: the stable (debounced) result
  sensitivity,              \* App state
  statsRef,                 \* App ref: SessionStats
  consecutiveBadChecksRef,  \* App ref
  sessions,                 \* App state: history, most recent first
  pipWindow,                \* App state: TRUE when the PiP window is open
  startTime,                \* App state: Date.now() at the start, or null
  isMusicPlaying,           \* App state: the user has enabled playback
  musicVolume,              \* App state: the base volume
  currentTrackIndex,        \* App state: index into PLAYLIST
  noiseGen,                 \* the NoiseGenerator held by noiseGenRef
  now,                      \* the clock read by Date.now()
  isProcessingRef,          \* ref of the mounted WebcamMonitor instance
  streamError,              \* state of the mounted WebcamMonitor instance
  videoReady,               \* video element has frames (readyState >= 2, width > 0)
  cameraPending,            \* a getUserMedia request is pending
  timeoutId,                \* warm-up timeout pending
  intervalId,               \* capture interval running
  calls,                    \* analyzeFrame invocations that have not been delivered
  hist,                     \* history: raw results ingested in the running session
  lastEvent                 \* history: what the last step did with a classification

vars == <<isMonitoring, isMonitoringRef, currentResult, sensitivity, statsRef,
          consecutiveBadChecksRef, sessions, pipWindow, startTime, isMusicPlaying,
          musicVolume, currentTrackIndex, noiseGen, now, isProcessingRef,
          streamError, videoReady, cameraPending, timeoutId, intervalId, calls,
          hist, lastEvent>>

\* the audio controls and the audio backend
audioVars == <<isMusicPlaying, musicVolume, currentTrackIndex, noiseGen>>

\* what the user's audio controls set
audioControls == <<isMusicPlaying, musicVolume, currentTrackIndex>>

appVars == <<isMonitoring, isMonitoringRef, currentResult, sensitivity, statsRef,
             consecutiveBadChecksRef, sessions, pipWindow, startTime, audioVars, now>>

monitorVars == <<isProcessingRef, streamError, videoReady, cameraPending,
                 timeoutId, intervalId>>

ZeroStats == [studying |-> 0, distracted |-> 0, absent |-> 0, total |-> 0]

\* useState<number | null>(null): null, which is falsy like 0
NoStartTime == 0

\* ------------------------------------------------- IEEE-754 double arithmetic
\* A positive double is [bits, exp]: 53 mantissa bits, least significant
\* first, and the exponent of the least significant bit.
MantissaBits == 53

Reverse(seq) == [i \in 1..Len(seq) |-> seq[Len(seq) + 1 - i]]

RECURSIVE BitsToInt(_)
BitsToInt(bits) ==
  IF bits = <<>> THEN 0 ELSE Head(bits) + 2 * BitsToInt(Tail(bits))

RECURSIVE Incr(_)
Incr(bits) ==
  IF bits = <<>> THEN <<1>>
  ELSE IF Head(bits) = 0 THEN <<1>> \o Tail(bits)
  ELSE <<0>> \o Incr(Tail(bits))

\* round a mantissa of more than 53 bits to nearest, ties to even
RoundNearestEven(bits, exp, sticky) ==
  LET n == Len(bits)
      drop == n - MantissaBits
  IN  IF drop <= 0 THEN [bits |-> bits, exp |-> exp]
      ELSE
        LET kept == SubSeq(bits, drop + 1, n)
            roundBit == bits[drop]
            rest == sticky \/ \E i \in 1..(drop - 1) : bits[i] = 1
            up == roundBit = 1 /\ (rest \/ kept[1] = 1)
            m == IF up THEN Incr(kept) ELSE kept
        IN  IF Len(m) > MantissaBits
              THEN [bits |-> Tail(m), exp |-> exp + drop + 1]
              ELSE [bits |-> m, exp |-> exp + drop]

\* smallest k with s * 2^k >= t
RECURSIVE LeadShift(_, _)
LeadShift(s, t) == IF s >= t THEN 0 ELSE 1 + LeadShift(2 * s, t)

\* n binary digits of r / t after the point, most significant first
RECURSIVE LongDiv(_, _, _, _)
LongDiv(r, t, n, acc) ==
  IF n = 0 THEN [bits |-> acc, rem |-> r]
  ELSE LongDiv((2 * r) % t, t, n - 1, Append(acc, (2 * r) \div t))

\* the double nearest to s / t, for 1 <= s <= t
FloatDiv(s, t) ==
  LET k == LeadShift(s, t)
      top == s * Pow2(k)
      q == LongDiv(top - t, t, MantissaBits, <<1>>)
  IN  RoundNearestEven(Reverse(q.bits), 0 - (k + MantissaBits), q.rem # 0)

RECURSIVE MulSmall(_, _, _)
MulSmall(bits, n, carry) ==
  IF bits = <<>>
    THEN IF carry = 0 THEN <<>> ELSE <<carry % 2>> \o MulSmall(<<>>, n, carry \div 2)
    ELSE LET d == Head(bits) * n + carry
         IN  <<d % 2>> \o MulSmall(Tail(bits), n, d \div 2)

\* the double nearest to x * n, for a small positive integer n
FloatMul(x, n) == RoundNearestEven(MulSmall(x.bits, n, 0), x.exp, FALSE)

\* Math.round of a positive double: nearest integer, ties upward
MathRound(x) ==
  IF x.exp >= 0 THEN BitsToInt(x.bits) * Pow2(x.exp)
  ELSE LET k == 0 - x.exp
           n == Len(x.bits)
           whole == IF k < n THEN BitsToInt(SubSeq(x.bits, k + 1, n)) ELSE 0
           half == IF k <= n THEN x.bits[k] ELSE 0
       IN  whole + half

\* Math.round((statsRef.current.studying / totalChecks) * 100), or 0
focusScore(stats) ==
  IF stats.total > 0
    THEN IF stats.studying = 0 THEN 0
         ELSE MathRound(FloatMul(FloatDiv(stats.studying, stats.total), 100))
    ELSE 0

\* ------------------------------------------------------------ reply texts
\* response.text is a sequence of symbols: single characters, given by
\* their code, and a JSON document kept whole (json is the value JSON.parse
\* gives for it).
Ch(c) == [ch |-> c, json |-> NoResult]

\* the code no character has
DocCode == 0

Doc(value) == [ch |-> DocCode, json |-> value]

Chars(s) == [i \in 1..Len(s) |-> Ch(s[i])]

\* line feed
NL == Ch(10)

\* three grave accents (code 96)
Backticks == Chars(<<96, 96, 96>>)

\* three grave accents and "json"
JsonFence == Chars(<<96, 96, 96, 106, 115, 111, 110>>)

\* a fence with another language tag: three grave accents and "JSON"
UpperCaseFence == Chars(<<96, 96, 96, 74, 83, 79, 78>>)

\* the opening fences a reply is wrapped in; <<>> is no fence
Fences == {<<>>, JsonFence, Backticks, UpperCaseFence}

\* the body bare, or between an opening fence and a closing one
Wrap(open, value) ==
  IF open = <<>> THEN <<Doc(value)>>
  ELSE open \o <<NL, Doc(value), NL>> \o Backticks

\* text that is not JSON
Garbage == Chars(<<111, 107>>)

\* tab, line feed, carriage return, space
IsSpace(sym) == sym.ch \in {9, 10, 13, 32}

RECURSIVE TrimStart(_)
TrimStart(text) ==
  IF text # <<>> /\ IsSpace(Head(text)) THEN TrimStart(Tail(text)) ELSE text

RECURSIVE TrimEnd(_)
TrimEnd(text) ==
  IF text # <<>> /\ IsSpace(text[Len(text)])
    THEN TrimEnd(SubSeq(text, 1, Len(text) - 1)) ELSE text

\* String.prototype.trim
Trim(text) == TrimEnd(TrimStart(text))

\* String.prototype.startsWith
StartsWith(text, prefix) ==
  /\ Len(text) >= Len(prefix)
  /\ SubSeq(text, 1, Len(prefix)) = prefix

\* text.replace(/^prefix/, "")
DropPrefix(text, prefix) ==
  IF StartsWith(text, prefix) THEN SubSeq(text, Len(prefix) + 1, Len(text)) ELSE text

\* text.replace(/<three grave accents>$/, "")
DropClosingFence(text) ==
  IF /\ Len(text) >= Len(Backticks)
     /\ SubSeq(text, Len(text) - Len(Backticks) + 1, Len(text)) = Backticks
    THEN SubSeq(text, 1, Len(text) - Len(Backticks))
    ELSE text

\* Clean Markdown code blocks if present
StripFence(text) ==
  IF StartsWith(text, JsonFence)
    THEN DropClosingFence(DropPrefix(text, JsonFence))
  ELSE IF StartsWith(text, Backticks)
    THEN DropClosingFence(DropPrefix(text, Backticks))
  ELSE text

\* JSON.parse: one document, white space around it allowed
JSONParse(text) ==
  LET t == Trim(text)
  IN  IF Len(t) = 1 /\ t[1].ch = DocCode
        THEN [ok |-> TRUE, value |-> t[1].json]
        ELSE [ok |-> FALSE, value |-> NoResult]

\* ------------------------------------------------------------- analyzeFrame
\* One invocation of analyzeFrame: the loop counter, where it is suspended,
\* the provider calls made, the backoff waits made and the value the promise
\* resolved to; failures counts the errors caught and overloads the overload
\* errors caught in a row.  sens and mounted belong to the captureAndAnalyze
\* closure that awaits it: the sensitivity its onStatusChange was created
\* with, whether its WebcamMonitor instance is still the mounted one, and the
\* number of sessions completed when it was issued.
analyzeFrameStart(sens, session) ==
  [mounted |-> TRUE, sens |-> sens, session |-> session, attempt |-> 0,
   phase |-> "calling", text |-> <<>>,
   nCalls |-> 1, delays |-> <<>>, failures |-> 0, overloads |-> 0,
   result |-> NoResult]

NoCall == [analyzeFrameStart(0, 0) EXCEPT !.phase = "none", !.nCalls = 0]

\* status or code 503, or a message with one of the two overload markers
IsOverloadError(error) ==
  \/ error.status = 503
  \/ error.status = 0 /\ error.code = 503
  \/ error.message \in {"The model is overloaded. Please try again later.",
                        "UNAVAILABLE"}

\* return result (a parsed reply)
ReturnParsed(c, reply) == [c EXCEPT !.phase = "returned", !.result = reply]

CatchRethrows(c, error) ==
  LET seen == [c EXCEPT !.failures = @ + 1,
                        !.overloads = IF IsOverloadError(error) THEN @ + 1 ELSE 0]
  IN  IF ShouldRetry(error, c.attempt)
        THEN [seen EXCEPT !.attempt = @ + 1,
                          !.phase = "waiting",
                          !.delays = Append(@, BackoffDelay(c.attempt + 1))]
        ELSE [seen EXCEPT !.phase = "rejected"]

\* catch (error) { ... }
Catch(c, error) ==
  LET seen == [c EXCEPT !.failures = @ + 1,
                        !.overloads = IF IsOverloadError(error) THEN @ + 1 ELSE 0]
  IN  IF ShouldRetry(error, c.attempt)
        THEN [seen EXCEPT !.attempt = @ + 1,
                          !.phase = "waiting",
                          !.delays = Append(@, BackoffDelay(c.attempt + 1))]
        ELSE [seen EXCEPT !.phase = "returned",
                          !.result = CatchFallback(isOverloaded(error))]

\* the try block after generateContent has resolved with text
Try(c, text) ==
  IF text = <<>> THEN Catch(c, EmptyReplyError)
  ELSE LET parsed == JSONParse(StripFence(Trim(text)))
           got == [c EXCEPT !.text = text]
       IN  IF parsed.ok THEN ReturnParsed(got, parsed.value)
           ELSE Catch(got, ParseError)

\* continue: the loop condition, then the next provider call or the loop exit
Continue(c) ==
  IF c.attempt < MAX_RETRIES
    THEN [c EXCEPT !.phase = "calling", !.nCalls = @ + 1]
    ELSE [c EXCEPT !.phase = "returned", !.result = LoopExitFallback]

\* ------------------------------------------------------------------ audio
\* Volumes are in thousandths of full scale: 0.5 is 500.
DefaultVolume == 500

\* positions of the volume slider (min 0, max 1, step 0.05)
Volumes == {0, DefaultVolume, 1000}

Track(type, noiseType) == [type |-> type, noiseType |-> noiseType]

PLAYLIST ==
  << Track("generator", "brown"), Track("generator", "pink"),
     Track("generator", "white") >>

\* no GainNode created yet
NoGain == 0 - 1

\* a new NoiseGenerator; live counts the source nodes started and not stopped
NewNoiseGenerator ==
  [isPlaying |-> FALSE, currentType |-> "brown", source |-> FALSE,
   gain |-> NoGain, live |-> 0]

NoiseGenStopUnchecked(g) ==
  [g EXCEPT !.live = @ - 1, !.source = FALSE, !.isPlaying = FALSE]

\* NoiseGenerator.stop
NoiseGenStop(g) ==
  [g EXCEPT !.live = IF g.source THEN @ - 1 ELSE @,
            !.source = FALSE,
            !.isPlaying = FALSE]

NoiseGenPlayNoStop(g, type, volume) ==
  IF g.isPlaying /\ g.currentType = type THEN g
  ELSE [g EXCEPT !.currentType = type, !.source = TRUE, !.gain = volume,
                 !.live = @ + 1, !.isPlaying = TRUE]

\* NoiseGenerator.play
NoiseGenPlay(g, type, volume) ==
  IF g.isPlaying /\ g.currentType = type THEN g
  ELSE [NoiseGenStop(g) EXCEPT !.currentType = type, !.source = TRUE,
                               !.gain = volume, !.live = @ + 1,
                               !.isPlaying = TRUE]

\* NoiseGenerator.setVolume: the target set on the GainNode, if there is one
NoiseGenSetVolume(g, volume) ==
  IF g.gain # NoGain THEN [g EXCEPT !.gain = volume] ELSE g

getTargetVolumeNoDuck(status, volume) == volume

\* getTargetVolume: musicVolume, or musicVolume * 0.2 for a bad stable status
getTargetVolume(status, volume) ==
  IF status \in {DISTRACTED, ABSENT} THEN (volume * 2) \div 10 ELSE volume

ShouldPlayIgnoresMonitoring(monitoring, playing) == playing

\* const shouldPlay = isMonitoring && isMusicPlaying
ShouldPlay(monitoring, playing) == monitoring /\ playing

\* 2. Playback Control Effect.  No <audio> element is rendered for a
\* generator track, so audioRef.current is null in both branches.
PlaybackEffect(g, monitoring, playing, index, status, volume) ==
  LET track == PLAYLIST[index + 1]
      targetVolume == getTargetVolume(status, volume)
  IN  IF track.type = "generator"
        THEN IF ShouldPlay(monitoring, playing)
               THEN NoiseGenSetVolume(NoiseGenPlay(g, track.noiseType, targetVolume),
                                      targetVolume)
               ELSE NoiseGenStop(g)
        ELSE NoiseGenStop(g)

\* 3. Volume Only Update
VolumeEffect(g, index, status, volume) ==
  IF PLAYLIST[index + 1].type = "generator"
    THEN NoiseGenSetVolume(g, getTargetVolume(status, volume))
    ELSE g

\* the two audio effects, run in this order after a render that changed one
\* of their dependencies
AudioEffects(g, monitoring, playing, index, status, volume) ==
  VolumeEffect(PlaybackEffect(g, monitoring, playing, index, status, volume),
               index, status, volume)

\* ------------------------------------------------------ handleStatusChange
IsBad(status) == status \in {DISTRACTED, ABSENT}

CountStatsSkipIdle(stats, status) ==
  [total |-> stats.total + (IF status = IDLE THEN 0 ELSE 1),
   studying |-> stats.studying + (IF status = STUDYING THEN 1 ELSE 0),
   distracted |-> stats.distracted + (IF status = DISTRACTED THEN 1 ELSE 0),
   absent |-> stats.absent + (IF status = ABSENT THEN 1 ELSE 0)]

\* 1. Stats tracking
CountStats(stats, status) ==
  [total |-> stats.total + 1,
   studying |-> stats.studying + (IF status = STUDYING THEN 1 ELSE 0),
   distracted |-> stats.distracted + (IF status = DISTRACTED THEN 1 ELSE 0),
   absent |-> stats.absent + (IF status = ABSENT THEN 1 ELSE 0)]

\* consecutiveBadChecksRef.current >= sensitivity
ThresholdReached(count, sens) == count >= sens

NextBadCountNoReset(count, status) == IF IsBad(status) THEN count + 1 ELSE count

\* consecutiveBadChecksRef after a result
NextBadCount(count, status) == IF IsBad(status) THEN count + 1 ELSE 0

\* currentResult after a result
NextStable(stable, count, result, sens) ==
  IF IsBad(result.status)
    THEN IF ThresholdReached(count + 1, sens) THEN result ELSE stable
    ELSE result

handleStatusChangeUnguarded(result, sens) ==
  [stats |-> CountStats(statsRef, result.status),
   bad |-> NextBadCount(consecutiveBadChecksRef, result.status),
   stable |-> NextStable(currentResult, consecutiveBadChecksRef, result, sens)]

\* handleStatusChange(result), in the closure created with sensitivity sens
handleStatusChange(result, sens) ==
  IF ~isMonitoringRef
    THEN [stats |-> statsRef, bad |-> consecutiveBadChecksRef, stable |-> currentResult]
    ELSE [stats |-> CountStats(statsRef, result.status),
          bad |-> NextBadCount(consecutiveBadChecksRef, result.status),
          stable |-> NextStable(currentResult, consecutiveBadChecksRef, result, sens)]

\* ----------------------------------------------------------------- history
\* what handleStatusChange found when it was called
Snapshot == [stable |-> currentResult, bad |-> consecutiveBadChecksRef,
             stats |-> statsRef, busy |-> isProcessingRef, startTime |-> startTime]

NoSnapshot == [stable |-> NoResult, bad |-> 0, stats |-> ZeroStats, busy |-> FALSE,
               startTime |-> NoStartTime]

NoEvent ==
  [kind |-> "none", by |-> "none", call |-> NoCall, before |-> NoSnapshot, ahead |-> 0]

Event(kind, c, before) ==
  [kind |-> kind, by |-> "none", call |-> c, before |-> before, ahead |-> 0]

\* an event of captureAndAnalyze, called by a timer or by the manual trigger
CaptureEvent(kind, by, c) ==
  [kind |-> kind, by |-> by, call |-> c, before |-> Snapshot, ahead |-> 0]

\* the end of the i-th pending invocation: ahead counts the invocations
\* issued before it that are still pending
CompletionEvent(kind, i, c, before) ==
  [kind |-> kind, by |-> "none", call |-> c, before |-> before, ahead |-> i - 1]

\* what toggleMonitoring found of the session it stops
StopSnapshot == [NoSnapshot EXCEPT !.stats = statsRef, !.startTime = startTime]

ZeroHist == [badRun |-> 0, idle |-> 0, stops |-> 0]

\* the run of bad raw results and the Idle results ingested in this session
HistAfter(h, status) ==
  [badRun |-> IF IsBad(status) THEN h.badRun + 1 ELSE 0,
   idle |-> h.idle + (IF status = IDLE THEN 1 ELSE 0),
   stops |-> h.stops]

\* ------------------------------------------------------------- the sampler
TimersOnWithoutMonitoring(monitoring, err) == ~err

\* the timers the interval effect leaves behind
TimersOn(monitoring, err) == monitoring /\ ~err

RECURSIVE SumTotals(_)
SumTotals(ss) ==
  IF ss = <<>> THEN 0 ELSE Head(ss).statusCounts.total + SumTotals(Tail(ss))

\* classifications of this run that were counted or are still to be delivered
Issued == SumTotals(sessions) + statsRef.total + Len(calls)

CanCaptureUnguarded(busy) == ~streamError /\ videoReady

CanCaptureWithoutVideo(busy) == ~streamError /\ ~busy

\* captureAndAnalyze gets past its guards
CanCapture(busy) == ~streamError /\ ~busy /\ videoReady

\* captureAndAnalyze up to the await, in the mounted WebcamMonitor instance,
\* called by the warm-up timer, the interval timer or the manual trigger
captureAndAnalyze(by) ==
  /\ CanCapture(isProcessingRef) => Issued < MaxChecks
  /\ IF CanCapture(isProcessingRef)
       THEN /\ isProcessingRef' = TRUE
            /\ calls' = Append(calls, analyzeFrameStart(sensitivity, Len(sessions)))
            /\ lastEvent' = CaptureEvent("issued", by,
                                         analyzeFrameStart(sensitivity, Len(sessions)))
       ELSE /\ UNCHANGED <<isProcessingRef, calls>>
            /\ lastEvent' = CaptureEvent("skipped", by, NoCall)

\* setTimeout(captureAndAnalyze, 1000)
WarmupTimer ==
  /\ timeoutId
  /\ timeoutId' = FALSE
  /\ captureAndAnalyze("warmup")
  /\ UNCHANGED <<appVars, streamError, videoReady, cameraPending, intervalId, hist>>

\* setInterval(captureAndAnalyze, CAPTURE_INTERVAL_MS)
IntervalTimer ==
  /\ intervalId
  /\ captureAndAnalyze("interval")
  /\ UNCHANGED <<appVars, streamError, videoReady, cameraPending, timeoutId,
                 intervalId, hist>>

TriggerGuardWithoutMonitoring(monitoring, busy) == ~busy

\* isMonitoring && !isProcessingRef.current
TriggerGuard(monitoring, busy) == monitoring /\ ~busy

\* handleManualRefresh -> triggerAnalysis
triggerAnalysis ==
  /\ IF TriggerGuard(isMonitoring, isProcessingRef)
       THEN captureAndAnalyze("trigger")
       ELSE /\ UNCHANGED <<isProcessingRef, calls>>
            /\ lastEvent' = CaptureEvent("ignored", "trigger", NoCall)
  /\ UNCHANGED <<appVars, streamError, videoReady, cameraPending, timeoutId,
                 intervalId, hist>>

\* ------------------------------------------------------------ the provider
Replace(i, c) == [calls EXCEPT ![i] = c]

Remove(i) == SubSeq(calls, 1, i - 1) \o SubSeq(calls, i + 1, Len(calls))

FinallyKeepsGuard(c) == isProcessingRef

\* the finally block of captureAndAnalyze
Finally(c) == IF c.mounted THEN FALSE ELSE isProcessingRef

\* analyzeFrame has returned: the await in captureAndAnalyze resumes in the
\* same task, onStatusChange(result), then the finally block
Deliver(i, c) ==
  LET h == handleStatusChange(c.result, c.sens)
  IN  /\ statsRef' = h.stats
      /\ consecutiveBadChecksRef' = h.bad
      /\ currentResult' = h.stable
      /\ isProcessingRef' = Finally(c)
      /\ calls' = Remove(i)
      /\ hist' = IF isMonitoringRef THEN HistAfter(hist, c.result.status) ELSE hist
      /\ lastEvent' = CompletionEvent(IF isMonitoringRef THEN "ingested" ELSE "dropped",
                                       i, c, Snapshot)
      /\ noiseGen' = AudioEffects(noiseGen, isMonitoring, isMusicPlaying,
                                  currentTrackIndex, h.stable.status, musicVolume)
      /\ UNCHANGED <<isMonitoring, isMonitoringRef, sensitivity, sessions, pipWindow,
                     startTime, audioControls, now,
                     streamError, videoReady, cameraPending, timeoutId, intervalId>>

\* analyzeFrame has thrown: the catch block of captureAndAnalyze, then finally
Rejected(i, c) ==
  /\ isProcessingRef' = Finally(c)
  /\ calls' = Remove(i)
  /\ lastEvent' = Event("rejected", c, NoSnapshot)
  /\ UNCHANGED <<appVars, streamError, videoReady, cameraPending, timeoutId,
                 intervalId, hist>>

\* analyzeFrame is suspended again
Suspend(i, c) ==
  /\ calls' = Replace(i, c)
  /\ lastEvent' = NoEvent
  /\ UNCHANGED <<appVars, monitorVars, hist>>

\* analyzeFrame ran from one suspension point to the next, or to its end
Resume(i, c) ==
  CASE c.phase = "returned" -> Deliver(i, c)
    [] c.phase = "rejected" -> Rejected(i, c)
    [] OTHER -> Suspend(i, c)

\* generateContent resolves with a reply of the schema, bare or fenced
ProviderReply(i, open, reply) ==
  /\ calls[i].phase = "calling"
  /\ Resume(i, Try(calls[i], Wrap(open, reply)))

\* generateContent resolves with no text
ProviderEmpty(i) ==
  /\ calls[i].phase = "calling"
  /\ Resume(i, Try(calls[i], <<>>))

\* generateContent resolves with text that JSON.parse rejects
ProviderUnparsable(i) ==
  /\ calls[i].phase = "calling"
  /\ Resume(i, Try(calls[i], Garbage))

\* generateContent rejects
ProviderFail(i, error) ==
  /\ calls[i].phase = "calling"
  /\ Resume(i, Catch(calls[i], error))

\* await wait(delay) is over
BackoffDone(i) ==
  /\ calls[i].phase = "waiting"
  /\ Resume(i, Continue(calls[i]))

\* --------------------------------------------------------------- the camera
\* getUserMedia resolves
CameraGranted ==
  /\ cameraPending
  /\ cameraPending' = FALSE
  /\ videoReady' = ~streamError
  /\ streamError' = FALSE
  /\ timeoutId' = IF streamError THEN TimersOn(isMonitoring, FALSE) ELSE timeoutId
  /\ intervalId' = IF streamError THEN TimersOn(isMonitoring, FALSE) ELSE intervalId
  /\ lastEvent' = NoEvent
  /\ UNCHANGED <<appVars, isProcessingRef, calls, hist>>

\* getUserMedia rejects
CameraDenied ==
  /\ cameraPending
  /\ cameraPending' = FALSE
  /\ videoReady' = FALSE
  /\ streamError' = TRUE
  /\ timeoutId' = FALSE
  /\ intervalId' = FALSE
  /\ lastEvent' = NoEvent
  /\ UNCHANGED <<appVars, isProcessingRef, calls, hist>>

\* ---------------------------------------------------------------- the App
DurationInMilliseconds(start, end) == IF start # NoStartTime THEN end - start ELSE 0

\* startTime ? Math.floor((endTime - startTime) / 1000) : 0
Duration(start, end) == IF start # NoStartTime THEN (end - start) \div 1000 ELSE 0

\* newSession; both Date.now() calls of the handler read the same clock value
StudySession(stats, start, end) ==
  [id |-> end,
   startTime |-> IF start # NoStartTime THEN start ELSE end,
   endTime |-> end,
   duration |-> Duration(start, end),
   focusScore |-> focusScore(stats),
   statusCounts |-> stats]

KeepOnlyNewSession(newSession, prev) == <<newSession>>

\* setSessions(prev => [newSession, ...prev])
PrependSession(newSession, prev) == <<newSession>> \o prev

ResultKeptAtStop(stable) == stable

\* setCurrentResult({ status: StudyStatus.IDLE, reason: "", confidence: 0 })
ResultAtStop(stable) == InitialResult

StatsCarriedOver(stats) == stats

\* statsRef.current = { studying: 0, distracted: 0, absent: 0, total: 0 }
StatsAtStart(stats) == ZeroStats

\* toggleMonitoring, START Session
StartSession ==
  /\ ~isMonitoring
  /\ Len(sessions) < MaxSessions
  /\ isMonitoringRef' = TRUE
  /\ isMonitoring' = TRUE
  /\ startTime' = now
  /\ statsRef' = StatsAtStart(statsRef)
  /\ consecutiveBadChecksRef' = 0
  /\ cameraPending' = TRUE
  /\ timeoutId' = TimersOn(TRUE, streamError)
  /\ intervalId' = TimersOn(TRUE, streamError)
  /\ noiseGen' = AudioEffects(noiseGen, TRUE, isMusicPlaying, currentTrackIndex,
                              currentResult.status, musicVolume)
  /\ hist' = [ZeroHist EXCEPT !.stops = hist.stops]
  /\ lastEvent' = Event("started", NoCall, NoSnapshot)
  /\ UNCHANGED <<currentResult, sensitivity, sessions, pipWindow, audioControls, now,
                 isProcessingRef, streamError, videoReady, calls>>

\* toggleMonitoring, STOP Session
StopSession ==
  /\ isMonitoring
  /\ isMonitoringRef' = FALSE
  /\ sessions' = PrependSession(StudySession(statsRef, startTime, now), sessions)
  /\ isMonitoring' = FALSE
  /\ currentResult' = ResultAtStop(currentResult)
  /\ startTime' = NoStartTime
  /\ consecutiveBadChecksRef' = 0
  /\ noiseGen' = AudioEffects(NoiseGenStop(noiseGen), FALSE, isMusicPlaying,
                              currentTrackIndex, ResultAtStop(currentResult).status,
                              musicVolume)
  /\ videoReady' = FALSE
  /\ timeoutId' = TimersOn(FALSE, streamError)
  /\ intervalId' = TimersOn(FALSE, streamError)
  /\ hist' = [hist EXCEPT !.stops = @ + 1]
  /\ lastEvent' = Event("stopped", NoCall, StopSnapshot)
  /\ UNCHANGED <<sensitivity, statsRef, pipWindow, audioControls, now,
                 isProcessingRef, streamError, cameraPending, calls>>

\* the sensitivity slider, rendered while monitoring is off
SetSensitivity(s) ==
  /\ ~isMonitoring
  /\ s # sensitivity
  /\ sensitivity' = s
  /\ lastEvent' = NoEvent
  /\ UNCHANGED <<isMonitoring, isMonitoringRef, currentResult, statsRef,
                 consecutiveBadChecksRef, sessions, pipWindow, startTime, audioVars,
                 now, monitorVars, calls, hist>>

\* the play / pause button of the music controls
ToggleMusic ==
  /\ isMusicPlaying' = ~isMusicPlaying
  /\ noiseGen' = AudioEffects(noiseGen, isMonitoring, ~isMusicPlaying,
                              currentTrackIndex, currentResult.status, musicVolume)
  /\ lastEvent' = NoEvent
  /\ UNCHANGED <<isMonitoring, isMonitoringRef, currentResult, sensitivity, statsRef,
                 consecutiveBadChecksRef, sessions, pipWindow, startTime, musicVolume,
                 currentTrackIndex, now, monitorVars, calls, hist>>

\* the volume slider, disabled while playback is not enabled
SetMusicVolume(v) ==
  /\ isMusicPlaying
  /\ v # musicVolume
  /\ musicVolume' = v
  /\ noiseGen' = AudioEffects(noiseGen, isMonitoring, isMusicPlaying,
                              currentTrackIndex, currentResult.status, v)
  /\ lastEvent' = NoEvent
  /\ UNCHANGED <<isMonitoring, isMonitoringRef, currentResult, sensitivity, statsRef,
                 consecutiveBadChecksRef, sessions, pipWindow, startTime,
                 isMusicPlaying, currentTrackIndex, now, monitorVars, calls, hist>>

\* setCurrentTrackIndex, then the audio effects
SetTrack(index) ==
  /\ currentTrackIndex' = index
  /\ noiseGen' = AudioEffects(noiseGen, isMonitoring, isMusicPlaying, index,
                              currentResult.status, musicVolume)
  /\ lastEvent' = Event("track", NoCall, NoSnapshot)
  /\ UNCHANGED <<isMonitoring, isMonitoringRef, currentResult, sensitivity, statsRef,
                 consecutiveBadChecksRef, sessions, pipWindow, startTime,
                 isMusicPlaying, musicVolume, now, monitorVars, calls, hist>>

nextTrack == SetTrack((currentTrackIndex + 1) % Len(PLAYLIST))

prevTrack == SetTrack((currentTrackIndex - 1 + Len(PLAYLIST)) % Len(PLAYLIST))

\* time passes
Tick(d) ==
  /\ now + d <= Epoch + MaxElapsed
  /\ now' = now + d
  /\ lastEvent' = NoEvent
  /\ UNCHANGED <<isMonitoring, isMonitoringRef, currentResult, sensitivity, statsRef,
                 consecutiveBadChecksRef, sessions, pipWindow, startTime, audioVars,
                 monitorVars, calls, hist>>

\* togglePiP: the WebcamMonitor is unmounted at one tree position and a new
\* instance is mounted at the other
togglePiP ==
  /\ Len(calls) <= MaxOrphans
  /\ pipWindow' = ~pipWindow
  /\ calls' = [i \in 1..Len(calls) |-> [calls[i] EXCEPT !.mounted = FALSE]]
  /\ isProcessingRef' = FALSE
  /\ streamError' = FALSE
  /\ videoReady' = FALSE
  /\ cameraPending' = isMonitoring
  /\ timeoutId' = TimersOn(isMonitoring, FALSE)
  /\ intervalId' = TimersOn(isMonitoring, FALSE)
  /\ lastEvent' = NoEvent
  /\ UNCHANGED <<isMonitoring, isMonitoringRef, currentResult, sensitivity, statsRef,
                 consecutiveBadChecksRef, sessions, startTime, audioVars, now, hist>>

\* ------------------------------------------------------------ specification
Init ==
  /\ isMonitoring = FALSE
  /\ isMonitoringRef = FALSE
  /\ currentResult = InitialResult
  /\ sensitivity = DefaultSensitivity
  /\ statsRef = ZeroStats
  /\ consecutiveBadChecksRef = 0
  /\ sessions = <<>>
  /\ pipWindow = FALSE
  /\ startTime = NoStartTime
  /\ isMusicPlaying = FALSE
  /\ musicVolume = DefaultVolume
  /\ currentTrackIndex = 0
  /\ noiseGen = NewNoiseGenerator
  /\ now = Epoch
  /\ isProcessingRef = FALSE
  /\ streamError = FALSE
  /\ videoReady = FALSE
  /\ cameraPending = FALSE
  /\ timeoutId = FALSE
  /\ intervalId = FALSE
  /\ calls = <<>>
  /\ hist = ZeroHist
  /\ lastEvent = NoEvent

\* start, stop, the sensitivity slider, the two timers, the manual trigger,
\* the provider and the camera
Next ==
  \/ StartSession
  \/ StopSession
  \/ \E s \in SliderPositions : SetSensitivity(s)
  \/ WarmupTimer
  \/ IntervalTimer
  \/ triggerAnalysis
  \/ \E i \in 1..Len(calls), reply \in ProviderReplies : ProviderReply(i, <<>>, reply)
  \/ \E i \in 1..Len(calls) : ProviderEmpty(i)
  \/ \E i \in 1..Len(calls) : ProviderUnparsable(i)
  \/ \E i \in 1..Len(calls), error \in ProviderErrors : ProviderFail(i, error)
  \/ \E i \in 1..Len(calls) : BackoffDone(i)
  \/ CameraGranted
  \/ CameraDenied

Spec == Init /\ [][Next]_vars

\* generateContent of some pending invocation resolves or rejects
ProviderSettles ==
  \E i \in 1..Len(calls) :
    \/ ProviderEmpty(i)
    \/ ProviderUnparsable(i)
    \/ \E reply \in ProviderReplies : ProviderReply(i, <<>>, reply)
    \/ \E error \in ProviderErrors : ProviderFail(i, error)

\* the backoff timer of some waiting invocation fires
BackoffEnds == \E i \in 1..Len(calls) : BackoffDone(i)

\* sessions at one slider position, sampled by the timers alone, with every
\* outcome of the provider
NextFair ==
  \/ StartSession
  \/ StopSession
  \/ WarmupTimer
  \/ IntervalTimer
  \/ ProviderSettles
  \/ BackoffEnds
  \/ CameraGranted
  \/ CameraDenied

\* a provider that answers every call, and timers that fire as long as they
\* are set
Fairness ==
  /\ WF_vars(ProviderSettles)
  /\ WF_vars(BackoffEnds)
  /\ WF_vars(IntervalTimer)

SpecFair == Init /\ [][NextFair]_vars /\ Fairness

\* sessions whose classifications all succeed at the first attempt
NextSession ==
  \/ StartSession
  \/ StopSession
  \/ WarmupTimer
  \/ IntervalTimer
  \/ CameraGranted
  \/ \E i \in 1..Len(calls), reply \in ProviderReplies : ProviderReply(i, <<>>, reply)

\* such sessions with the slider in use between them and the monitor moving
\* between the main view and the PiP window
NextPiP ==
  \/ NextSession
  \/ \E s \in SliderPositions : SetSensitivity(s)
  \/ togglePiP

SpecPiP == Init /\ [][NextPiP]_vars

\* such sessions with replies that come bare or in a fence, inside the
\* schema or not
NextText ==
  \/ StartSession
  \/ StopSession
  \/ WarmupTimer
  \/ IntervalTimer
  \/ CameraGranted
  \/ \E i \in 1..Len(calls), open \in Fences, reply \in ParsableReplies :
       ProviderReply(i, open, reply)
  \/ \E i \in 1..Len(calls) : ProviderUnparsable(i)

SpecText == Init /\ [][NextText]_vars

\* such sessions with the music controls in use
NextAudio ==
  \/ NextSession
  \/ ToggleMusic
  \/ \E v \in Volumes : SetMusicVolume(v)
  \/ nextTrack
  \/ prevTrack

SpecAudio == Init /\ [][NextAudio]_vars

\* such sessions with time passing
NextClock ==
  \/ NextSession
  \/ \E d \in Ticks : Tick(d)

SpecClock == Init /\ [][NextClock]_vars

\* ------------------------------------------- the focus score of long sessions
\* SessionStats of a running session after up to MaxTotal results
ScoreStats ==
  { st \in [studying : 0..MaxTotal, distracted : 0..MaxTotal, absent : {0},
            total : 0..MaxTotal] :
      /\ st.studying <= st.total
      /\ st.distracted \in {0, st.total - st.studying} }

\* a session in which the Distracted results, if any, came first
InitScore ==
  /\ isMonitoring = TRUE
  /\ isMonitoringRef = TRUE
  /\ sensitivity = DefaultSensitivity
  /\ statsRef \in ScoreStats
  /\ consecutiveBadChecksRef =
       IF statsRef.studying = 0 /\ statsRef.distracted = statsRef.total
         THEN statsRef.total ELSE 0
  /\ currentResult =
       IF statsRef.total = 0 THEN InitialResult
       ELSE IF statsRef.studying > 0 THEN AnalysisResult(STUDYING, "keep going", 1)
       ELSE IF statsRef.distracted < statsRef.total THEN CatchFallback(FALSE)
       ELSE IF statsRef.total >= sensitivity
         THEN AnalysisResult(DISTRACTED, "keep going", 1)
       ELSE InitialResult
  /\ sessions = <<>>
  /\ pipWindow = FALSE
  /\ startTime = Epoch
  /\ isMusicPlaying = FALSE
  /\ musicVolume = DefaultVolume
  /\ currentTrackIndex = 0
  /\ noiseGen = NewNoiseGenerator
  /\ now = Epoch
  /\ isProcessingRef = FALSE
  /\ streamError = FALSE
  /\ videoReady = TRUE
  /\ cameraPending = FALSE
  /\ timeoutId = FALSE
  /\ intervalId = TRUE
  /\ calls = <<>>
  /\ hist = [badRun |-> consecutiveBadChecksRef,
             idle |-> statsRef.total - statsRef.studying - statsRef.distracted,
             stops |-> 0]
  /\ lastEvent = NoEvent

SpecScore == InitScore /\ [][StopSession]_vars

\* ------------------------------------------------------------------ claims
Delivered == lastEvent.kind \in {"ingested", "dropped"}

Ingested == lastEvent.kind = "ingested"

Raw == lastEvent.call.result

Before == lastEvent.before

FallbackReasons == {"Server busy, retrying...", "Analysis failed", "Service unavailable"}

\* every analyzeFrame invocation that is pending or was just delivered
CallsInView ==
  {calls[i] : i \in 1..Len(calls)} \cup
  (IF lastEvent.kind \in {"ingested", "dropped", "rejected"}
     THEN {lastEvent.call} ELSE {})

\* C1: the s-th consecutive bad raw result of a run, s the sensitivity, is
\* the one at which the stable status becomes Distracted or Absent: no bad
\* result before the s-th changes the stable result, and the s-th sets it.
C1_StableTurnsBadExactlyAtSensitivity ==
  (Ingested /\ IsBad(Raw.status)) =>
    /\ hist.badRun < sensitivity => currentResult = Before.stable
    /\ hist.badRun = sensitivity => currentResult = Raw
    /\ (~IsBad(Before.stable.status) /\ IsBad(currentResult.status))
         => hist.badRun = sensitivity

\* C2: a Studying or Idle raw result ingested in an active session resets
\* consecutiveBadCount to 0 and becomes the stable result in the same step.
C2_RecoveryIsImmediate ==
  (Ingested /\ Raw.status \in {STUDYING, IDLE}) =>
    /\ consecutiveBadChecksRef = 0
    /\ currentResult = Raw

\* C2 witness: a Studying result was ingested while the stable status was
\* bad and the counter positive.
C2_Witness ==
  /\ Ingested
  /\ Raw.status = STUDYING
  /\ IsBad(Before.stable.status)
  /\ Before.bad > 0

\* C3: at most one analyzeFrame call is in flight, and a timer tick or a
\* manual trigger that finds one pending starts none.
C3_AtMostOneInFlight ==
  /\ Len(calls) <= 1
  /\ (lastEvent.kind = "issued") => Len(calls) = 1

\* C3 witness: a tick or trigger was skipped while a call was pending, the
\* session running and the video ready.
C3_Witness ==
  /\ lastEvent.kind = "skipped"
  /\ Len(calls) = 1
  /\ isProcessingRef
  /\ isMonitoring /\ videoReady /\ ~streamError

\* C4: after overload errors on 3 consecutive attempts analyzeFrame has made
\* exactly 3 provider calls, waited 1000 ms and 2000 ms, and returns the
\* fallback with reason "Service unavailable".
C4_ThreeOverloadsGiveServiceUnavailable ==
  (Delivered /\ lastEvent.call.overloads = 3) =>
    /\ lastEvent.call.nCalls = 3
    /\ lastEvent.call.delays = <<1000, 2000>>
    /\ Raw = AnalysisResult(IDLE, "Service unavailable", 0)

\* C5: analyzeFrame never rejects, and when its last provider call failed it
\* resolves to Idle with confidence 0 and one of the three fixed reasons.
C5_NeverRejects ==
  /\ lastEvent.kind # "rejected"
  /\ \A c \in CallsInView : c.phase \in {"calling", "waiting", "returned"}
  /\ Delivered =>
       IF lastEvent.call.failures = lastEvent.call.nCalls
         THEN /\ Raw.status = IDLE
              /\ Raw.confidence = 0
              /\ Raw.reason \in FallbackReasons
         ELSE Raw \in ProviderReplies

\* C5 witness: the result of a failed invocation reached handleStatusChange.
C5_Witness ==
  /\ Ingested
  /\ lastEvent.call.failures = lastEvent.call.nCalls
  /\ lastEvent.call.overloads = 0
  /\ Raw.reason = "Analysis failed"

\* C6: only an overload error is followed by a wait; an error that is not an
\* overload error ends the invocation at once with the Idle fallback, with
\* no wait and no provider call after the failed one.
C6_RetryOnlyOnOverload ==
  /\ \A c \in CallsInView :
       c.phase = "waiting" => (c.overloads > 0 /\ c.overloads = c.failures)
  /\ \A c \in CallsInView :
       (c.failures > 0 /\ c.overloads = 0) =>
         /\ c.phase = "returned"
         /\ c.result = AnalysisResult(IDLE, "Analysis failed", 0)
         /\ c.nCalls = c.failures
         /\ Len(c.delays) = c.failures - 1

\* C6 witness: a non-overload error on the second attempt, one attempt left.
C6_Witness ==
  /\ Delivered
  /\ lastEvent.call.failures = 2
  /\ lastEvent.call.overloads = 0
  /\ lastEvent.call.nCalls = 2

\* C7: an invocation makes at most 3 provider calls and at most 2 waits, of
\* 1000 ms and then 2000 ms, and never waits after its third call.
C7_BoundedRetries ==
  \A c \in CallsInView :
    /\ c.nCalls <= 3
    /\ Len(c.delays) <= 2
    /\ Len(c.delays) >= 1 => c.delays[1] = 1000
    /\ Len(c.delays) >= 2 => c.delays[2] = 2000
    /\ c.phase = "waiting" => c.nCalls = Len(c.delays)
    /\ c.phase # "waiting" => c.nCalls = Len(c.delays) + 1

\* C7 witness: an invocation ended after 3 provider calls and both waits.
C7_Witness ==
  /\ Delivered
  /\ lastEvent.call.nCalls = 3
  /\ lastEvent.call.delays = <<1000, 2000>>

\* C8: every ingested result adds 1 to total and 1 to the counter of its
\* status, none for Idle, so total = studying + distracted + absent + the
\* Idle results ingested in the session.
C8_StatsCountEveryResult ==
  /\ statsRef.total =
       statsRef.studying + statsRef.distracted + statsRef.absent + hist.idle
  /\ Ingested =>
       /\ statsRef.total = Before.stats.total + 1
       /\ statsRef.studying =
            Before.stats.studying + (IF Raw.status = STUDYING THEN 1 ELSE 0)
       /\ statsRef.distracted =
            Before.stats.distracted + (IF Raw.status = DISTRACTED THEN 1 ELSE 0)
       /\ statsRef.absent =
            Before.stats.absent + (IF Raw.status = ABSENT THEN 1 ELSE 0)

\* C8 witness: an Idle result was ingested after a counted one, below the
\* debounce threshold or not.
C8_Witness ==
  /\ Ingested
  /\ Raw.status = IDLE
  /\ statsRef.total = 2
  /\ statsRef.distracted = 1

\* C9: the focus score of a finalized session is an integer in 0..100, 0 for
\* an empty session and otherwise 100 * studying / total rounded to the
\* nearest integer, halves upward.
C9_FocusScoreIsRoundedRatio ==
  \A i \in 1..Len(sessions) :
    LET f == sessions[i].focusScore
        st == sessions[i].statusCounts
    IN  /\ f \in 0..100
        /\ st.total = 0 => f = 0
        /\ st.total > 0 =>
             /\ 2 * f * st.total - st.total <= 200 * st.studying
             /\ 200 * st.studying < 2 * f * st.total + st.total

\* C10: while no session is active handleStatusChange leaves SessionStats,
\* consecutiveBadCount and the stable result as they were.
C10_InactiveIngestChangesNothing ==
  (lastEvent.kind = "dropped") =>
    /\ statsRef = Before.stats
    /\ consecutiveBadChecksRef = Before.bad
    /\ currentResult = Before.stable

\* C10 witness: a Distracted or Absent result arrived after the stop.
C10_Witness ==
  /\ lastEvent.kind = "dropped"
  /\ ~isMonitoringRef
  /\ IsBad(Raw.status)

\* C11: the result of a classification that was in flight when monitoring
\* was stopped is discarded when it arrives, also after a new session has
\* been started: it changes neither SessionStats, consecutiveBadCount nor the
\* stable result.
C11_LateResultsAreDiscarded ==
  (Delivered /\ lastEvent.call.session < Len(sessions)) =>
    /\ lastEvent.kind = "dropped"
    /\ statsRef = Before.stats
    /\ consecutiveBadChecksRef = Before.bad
    /\ currentResult = Before.stable

\* C12: while monitoring is stopped neither timer is pending and no
\* analyzeFrame call is issued: every pending call dates from a session that
\* has been completed.
C12_StopCancelsSampling ==
  ~isMonitoring =>
    /\ ~timeoutId
    /\ ~intervalId
    /\ lastEvent.kind # "issued"
    /\ \A i \in 1..Len(calls) : calls[i].session < Len(sessions)

\* C12 witness: after a stop the manual trigger found the guard free and the
\* video ready, and was ignored.
C12_Witness ==
  /\ ~isMonitoring
  /\ Len(sessions) >= 1
  /\ lastEvent.kind = "ignored"
  /\ ~Before.busy
  /\ videoReady /\ ~streamError

\* C13: a stop leaves the in-flight guard false, and a capture attempt is
\* skipped on account of the guard only for a classification issued in the
\* running session.
C13_StopResetsInFlightGuard ==
  /\ (lastEvent.kind = "stopped") => ~isProcessingRef
  /\ (lastEvent.kind \in {"skipped", "ignored"} /\ isMonitoring /\ Before.busy) =>
       \E i \in 1..Len(calls) : calls[i].session = Len(sessions)

C16_PlaysOnlyWhileMonitoringAndEnabled ==
  (noiseGen.isPlaying \/ noiseGen.live > 0) => (isMonitoring /\ isMusicPlaying)

\* C16 witness: a stop silenced a generator that had been playing, with
\* playback still enabled.
C16_Witness ==
  /\ lastEvent.kind = "stopped"
  /\ isMusicPlaying
  /\ noiseGen.gain # NoGain
  /\ ~noiseGen.isPlaying
  /\ noiseGen.live = 0

\* C17: at most one sound source is active.
C17_AtMostOneSource ==
  noiseGen.live <= 1

\* C17 witness: the track was switched while the generator was playing, and
\* one source of the new type is active.
C17_Witness ==
  /\ lastEvent.kind = "track"
  /\ isMonitoring /\ isMusicPlaying
  /\ noiseGen.isPlaying
  /\ noiseGen.currentType = PLAYLIST[currentTrackIndex + 1].noiseType
  /\ noiseGen.live = 1

\* C18: every stop adds one StudySession at the head of the history, with
\* the SessionStats at the stop, the focus score of those stats and the
\* duration floor((endTime - startTime) / 1000); the history has one record
\* per stop, most recent first.
C18_StopRecordsTheSession ==
  /\ Len(sessions) = hist.stops
  /\ \A i \in 1..Len(sessions), j \in 1..Len(sessions) :
       i < j => sessions[i].endTime >= sessions[j].endTime
  /\ (lastEvent.kind = "stopped") =>
       LET s == Head(sessions)
       IN  /\ s.statusCounts = Before.stats
           /\ s.focusScore = focusScore(Before.stats)
           /\ s.startTime = Before.startTime
           /\ s.endTime = now
           /\ 1000 * s.duration <= s.endTime - s.startTime
           /\ s.endTime - s.startTime < 1000 * s.duration + 1000

\* C18 witness: a second session with results was stopped after 1500 ms.
C18_Witness ==
  /\ lastEvent.kind = "stopped"
  /\ Len(sessions) = 2
  /\ Head(sessions).statusCounts.total > 0
  /\ Head(sessions).endTime - Head(sessions).startTime = 1500
  /\ Head(sessions).duration = 1

\* C19: no step removes, changes or reorders a record of the history: the
\* old history is a suffix of the new one.
C19_HistoryIsAppendOnly ==
  [][/\ Len(sessions') >= Len(sessions)
     /\ \A i \in 1..Len(sessions) :
          sessions'[Len(sessions') - Len(sessions) + i] = sessions[i]]_vars

\* C19 witness: a late result was ingested in a session started after a
\* record with results had entered the history.
C19_Witness ==
  /\ Ingested
  /\ lastEvent.call.session < Len(sessions)
  /\ sessions[Len(sessions)].statusCounts.total > 0
  /\ statsRef # sessions[Len(sessions)].statusCounts

\* C20: a start leaves SessionStats all zero, consecutiveBadCount 0 and the
\* session active.
C20_StartResetsCounters ==
  (lastEvent.kind = "started") =>
    /\ statsRef = ZeroStats
    /\ consecutiveBadChecksRef = 0
    /\ isMonitoringRef
    /\ isMonitoring

\* C20 witness: a session was started after one that had counted results.
C20_Witness ==
  /\ lastEvent.kind = "started"
  /\ Len(sessions) >= 1
  /\ Head(sessions).statusCounts.total > 0

\* C21: results reach handleStatusChange in the order in which their
\* classifications were issued: when one is ingested or dropped, no
\* classification issued before it is still pending.
C21_IngestedInIssueOrder ==
  Delivered => lastEvent.ahead = 0

\* C22: analyzeFrame returns the reply body whether it came bare, in a
\* fence with a language tag or in a bare fence.
C22_FencedRepliesParseAlike ==
  \A open \in Fences, body \in ProviderReplies :
    (Delivered /\ lastEvent.call.text = Wrap(open, body)) => Raw = body

\* C23: a bad raw result that leaves consecutiveBadCount below sensitivity
\* leaves the stable result as it was, adds 1 to the counter and is counted
\* in SessionStats.
C23_BelowThresholdKeepsStable ==
  (Ingested /\ IsBad(Raw.status) /\ consecutiveBadChecksRef < sensitivity) =>
    /\ currentResult = Before.stable
    /\ consecutiveBadChecksRef = Before.bad + 1
    /\ statsRef.total = Before.stats.total + 1

\* C24: a call is issued only without a stream error and with the video
\* ready; a capture attempt that finds the video not ready leaves the
\* in-flight guard false.
C24_NoCaptureWithoutVideo ==
  /\ (lastEvent.kind = "issued") => (~streamError /\ videoReady)
  /\ streamError => ~(timeoutId \/ intervalId)
  /\ (lastEvent.kind = "skipped" /\ ~Before.busy) =>
       (~isProcessingRef /\ (streamError \/ ~videoReady))

\* C24 witness: the manual trigger passed its guard while the stream error
\* was set, and no call was issued.
C24_Witness ==
  /\ lastEvent.kind = "skipped"
  /\ lastEvent.by = "trigger"
  /\ streamError
  /\ isMonitoring
  /\ ~isProcessingRef
  /\ calls = <<>>

\* C25: with a provider that answers and timers that fire, every issued
\* classification completes and releases the in-flight guard, whatever the
\* provider answers; and while monitoring stays active and the video stays
\* ready a free guard is followed by a new classification.
C25_GuardIsAlwaysReleased ==
  /\ isProcessingRef ~> ~isProcessingRef
  /\ (calls # <<>>) ~> (calls = <<>>)
  /\ (isMonitoring /\ ~isProcessingRef /\ videoReady /\ ~streamError
        /\ Issued < MaxChecks)
       ~> (isProcessingRef \/ ~isMonitoring \/ streamError)

\* C25 witness: an invocation that ran out of retries has completed and the
\* guard is free again.
C25_Witness ==
  /\ Delivered
  /\ lastEvent.call.failures = MAX_RETRIES
  /\ isMonitoring
  /\ ~isProcessingRef

\* C26: while monitoring is inactive the stable result is the Idle one and
\* consecutiveBadCount is 0.
C26_InactiveIsIdle ==
  ~isMonitoring =>
    /\ currentResult.status = IDLE
    /\ consecutiveBadChecksRef = 0

\* C26 witness: a bad result arrived after the stop of a session that had
\* counted bad results.
C26_Witness ==
  /\ ~isMonitoring
  /\ lastEvent.kind = "dropped"
  /\ IsBad(Raw.status)
  /\ Head(sessions).statusCounts.distracted + Head(sessions).statusCounts.absent > 0

\* C27: while the stable status is Distracted or Absent, consecutiveBadCount
\* is at least the current sensitivity.
C27_BadStableMeansThresholdReached ==
  IsBad(currentResult.status) => consecutiveBadChecksRef >= sensitivity

\* C28: with the picture-in-picture window opened and closed at any time,
\* no classification is issued while another one is pending.
C28_GuardSurvivesPiP ==
  (lastEvent.kind = "issued") => Len(calls) = 1

\* C29: a fallback result carries "Server busy, retrying..." exactly when
\* the last error was an overload error, which is then the third one, and
\* "Analysis failed" exactly when it was not; none carries
\* "Service unavailable".
C29_FallbackComesFromCatch ==
  \A c \in CallsInView :
    /\ c.result.reason # "Service unavailable"
    /\ (c.phase = "returned" /\ c.failures = c.nCalls) =>
         /\ c.result.reason = "Server busy, retrying..." <=> c.overloads > 0
         /\ c.result.reason = "Analysis failed" <=> c.overloads = 0
         /\ c.overloads > 0 => (c.nCalls = MAX_RETRIES /\ c.overloads = MAX_RETRIES)

\* C29 witness: the third overload error in a row ended an invocation.
C29_Witness ==
  /\ Delivered
  /\ lastEvent.call.overloads = 3
  /\ Raw = AnalysisResult(IDLE, "Server busy, retrying...", 0)

\* C30: Distracted and Absent results share the counter, which is the
\* length of the run of bad results of either status; once it has reached
\* sensitivity every further bad result becomes the stable result at once.
C30_BadStatusesShareCounter ==
  /\ isMonitoring => consecutiveBadChecksRef = hist.badRun
  /\ (Ingested /\ IsBad(Raw.status) /\ Before.bad >= sensitivity) =>
       currentResult = Raw

\* C31: whenever the reply of the provider is not empty and parses as JSON,
\* the status analyzeFrame returns is Studying, Distracted or Absent: Idle
\* comes from the failure fallback alone.
C31_IdleOnlyFromFallback ==
  ( /\ Delivered
    /\ lastEvent.call.text # <<>>
    /\ JSONParse(StripFence(Trim(lastEvent.call.text))).ok )
  => Raw.status \in {STUDYING, DISTRACTED, ABSENT}

\* C32: NoiseGenerator.stop leaves the generator stopped (isPlaying false,
\* no source), changes nothing when nothing is playing, and a second call
\* changes nothing more; play of the type that is playing changes nothing,
\* so it starts no second source.
C32_StopIsIdempotent ==
  /\ ~NoiseGenStop(noiseGen).isPlaying
  /\ ~NoiseGenStop(noiseGen).source
  /\ NoiseGenStop(noiseGen).live = 0
  /\ NoiseGenStop(NoiseGenStop(noiseGen)) = NoiseGenStop(noiseGen)
  /\ ~noiseGen.isPlaying => NoiseGenStop(noiseGen) = noiseGen
  /\ \A volume \in Volumes :
       noiseGen.isPlaying =>
         NoiseGenPlay(noiseGen, noiseGen.currentType, volume) = noiseGen

\* C32 witness: the track was switched with playback disabled after the
\* generator had played: the playback effect called stop on a generator
\* that was stopped already.
C32_Witness ==
  /\ lastEvent.kind = "track"
  /\ isMonitoring /\ ~isMusicPlaying
  /\ noiseGen.gain # NoGain
  /\ ~noiseGen.isPlaying
  /\ ~noiseGen.source
  /\ noiseGen.live = 0

====
